---- MODULE Spec2Model ----
\* A model of the webxash3d proxy core: the per-connection signaling handler
\* (src/src/signaling.rs) with its channel-open gate and bridge slot, and the
\* Bridge (src/src/bridge.rs) with its Notify-based shutdown coordination.
\*
\* The specifications share the variables:
\*   Spec        one ClientSession: handle_websocket, the two on_open callbacks
\*               running start_bridge, the peer-connection state monitor and the
\*               exit cleanup; a Bridge is seen through its interface
\*               (Bridge::new, spawn of Bridge::start, Bridge::shutdown).
\*   BridgeSpec  one constructed Bridge: Bridge::start, forward_udp_to_webrtc,
\*               the read-channel callbacks and the shutdown Notify.
\*   SigSpec     the writers of the signaling transport: the handler's offer
\*               path and the on_ice_candidate callbacks behind ws_sender.
\*   SysSpec     the session and its Bridge together, with little traffic.
\*   ReadChanSpec  a Bridge whose shutdown is triggered by its read channel
\*               only, with little traffic.
\*   CandSpec    the writers of SigSpec in a session whose peer connection
\*               goes down, with few kinds of inbound frames.
\*   FairSpec, FairSigSpec, FairTrigSpec
\*               Spec, SigSpec and a Bridge triggered from any source, with
\*               the fairness of the tokio runtime, for the leads-to
\*               properties.
EXTENDS Integers, Sequences, FiniteSets, TLC

\* ---------------------------------------------------------------- bounds

\* How many peer-connection state changes the monitor is shown.
MaxStateChanges == 2

\* How many datagrams the UDP socket delivers to the forwarding loop.
MaxDatagrams == 3

\* How many messages arrive on the read channel.
MaxMessages == 2

\* How many times the shutdown signal is triggered (all sources together).
MaxTriggers == 2

\* How many locally gathered ICE candidates the peer session reports.
MaxCandidates == 2

\* How many datagrams, and how many read-channel messages, the Bridge is
\* given in SysSpec and ReadChanSpec.
MaxLightTraffic == 1

\* ------------------------------------------------------- program constants

\* bridge.rs:9  const MAX_PACKET_SIZE: usize = 65536
MAX_PACKET_SIZE == 65536

\* The AtomicU8 behind channels_open wraps at 2^8.
U8Modulus == 256

\* The two data channels created by handle_websocket.
Chans == {"write", "read"}

\* States reported to on_peer_connection_state_change.
PeerStates == {"Connecting", "Connected", "Disconnected", "Failed", "Closed"}

\* What handle_ws_messages can be handed by receiver.next():
\*   answer_ok         Text, event "answer", SDP parses, set_remote_description Ok
\*   answer_rejected   Text, event "answer", SDP parses, set_remote_description Err
\*   answer_malformed  Text, event "answer", SDP missing/empty/unparsable
\*   candidate         Text, event "candidate", add_ice_candidate Ok
\*   candidate_rejected  Text, event "candidate", add_ice_candidate Err
\*   candidate_bad     Text, event "candidate", data is no RTCIceCandidateInit
\*   unknown           Text, any other event
\*   invalid_json      Text, not the JSON of a SignalMessage
\*   other             Ping and the remaining non-text frames
\*   close / error / end   Close frame, Err(e), end of stream (None)
WsEvents == {"answer_ok", "answer_rejected", "answer_malformed", "candidate",
             "candidate_rejected", "candidate_bad", "unknown", "invalid_json", "other", "close",
             "error", "end"}

\* The session descriptions create_offer may produce.
Sdps == {"sdp_a", "sdp_b"}

\* The on_ice_candidate invocations.
Cands == 1..MaxCandidates

\* What on_ice_candidate is called with: a candidate, a candidate whose
\* to_json() fails, or None at the end of gathering.
CandKinds == {"some", "unserializable", "none"}

\* An on_ice_candidate invocation that has not happened yet.
NotReported == [kind |-> "unreported", closed |-> FALSE]

\* The holders of the ws_sender mutex: nobody, the handler's offer block, or
\* the i-th on_ice_candidate invocation.
Nobody == [who |-> "nobody", i |-> 0]
OfferWriter == [who |-> "offer", i |-> 0]
CandWriter(i) == [who |-> "candidate", i |-> i]

\* Lengths of the datagrams the game server sends (content is identified by
\* the tag; a datagram shortened to n bytes keeps the tag and has len n).
DatagramLens == {0, 10, 200, 65536}
Datagrams == [tag : {"d"}, len : DatagramLens]

\* Messages the browser sends on the read channel.
Messages == [tag : {"m"}, len : {0, 10}]

VARIABLES
    \* ---- session (signaling.rs)
    hpc,            \* where handle_websocket is
    remote_set,     \* the peer session holds a remote description
    channels_open,  \* the AtomicU8 counter
    gpc,            \* per channel: where its start_bridge invocation is
    gcount,         \* per channel: the local `count` of its invocation
    bridge,         \* the slot Arc<Mutex<Option<Arc<Bridge>>>>: "none" or the owner
    bst,            \* per channel: the Bridge its invocation built, if any
    sup_shutdowns,  \* per channel: Bridge::shutdown calls made by the supervisor
    state_changes,  \* peer-connection state changes delivered so far
    peer_down,      \* the monitor was told Failed, Disconnected or Closed
    ws_msg,         \* what receiver.next() returned, while it is being handled
    ws_last,        \* the last thing the loop body has handled
    herr,           \* the offer step whose failure made the handler return
    offer,          \* the handler's local `offer`
    local_desc,     \* the peer session's local description
    ws_lock,        \* who holds the ws_sender mutex
    ws_out,         \* messages written to the signaling transport, in order
    cpc,            \* per on_ice_candidate invocation: where it is
    creport,        \* per invocation: what it was given, session closed or not
    \* ---- bridge (bridge.rs)
    spc,            \* where Bridge::start is
    fpc,            \* where the forward_udp_to_webrtc task is
    handlers,       \* read-channel callbacks are installed
    read_closed,    \* the read channel has closed
    permit,         \* Notify: a stored notification
    waiters,        \* Notify: tasks parked in notified(), oldest first
    woken,          \* Notify: parked tasks handed a notification, not yet run
    abort_req,      \* udp_to_webrtc.abort() was called
    triggers,       \* how many times the shutdown signal was triggered
    fdata,          \* forward loop local: the bytes copied out of buf
    udp_recvd,      \* datagrams the loop's recv returned, in order
    out,            \* messages written to the write channel, in order
    in_msgs,        \* messages delivered by the read channel, in order
    udp_sent        \* udp_socket.send calls made by on_message, in order

sigVars == <<peer_down, ws_msg, ws_last, herr, offer, local_desc, ws_lock, ws_out, cpc,
             creport>>
sessVars == <<hpc, remote_set, channels_open, gpc, gcount, bridge, bst,
              sup_shutdowns, state_changes, sigVars>>
brVars == <<spc, fpc, handlers, read_closed, permit, waiters, woken, abort_req,
            triggers, fdata, udp_recvd, out, in_msgs, udp_sent>>
vars == <<sessVars, brVars>>

NoData == [tag |-> "none", len |-> 0]

\* ================================================================ session

SessInit ==
    /\ hpc = "create_offer"
    /\ remote_set = FALSE
    /\ channels_open = 0
    /\ gpc = [c \in Chans |-> "idle"]
    /\ gcount = [c \in Chans |-> 0]
    /\ bridge = "none"
    /\ bst = [c \in Chans |-> "none"]
    /\ sup_shutdowns = [c \in Chans |-> 0]
    /\ state_changes = 0
    /\ peer_down = FALSE
    /\ ws_msg = "none"
    /\ ws_last = "none"
    /\ herr = "none"
    /\ offer = "none"
    /\ local_desc = "none"
    /\ ws_lock = Nobody
    /\ ws_out = <<>>
    /\ cpc = [i \in Cands |-> "idle"]
    /\ creport = [i \in Cands |-> NotReported]

BrIdle ==
    /\ spc = "unspawned"
    /\ fpc = "unspawned"
    /\ handlers = FALSE
    /\ read_closed = FALSE
    /\ permit = FALSE
    /\ waiters = <<>>
    /\ woken = {}
    /\ abort_req = FALSE
    /\ triggers = 0
    /\ fdata = NoData
    /\ udp_recvd = <<>>
    /\ out = <<>>
    /\ in_msgs = <<>>
    /\ udp_sent = <<>>

\* channels_open.fetch_add(1, SeqCst): the new value of the counter.
FetchAdd(v) == (v + 1) % U8Modulus

\* Mutants of the gate test: every open creates; the first open creates.
GateFiresEveryOpen(count) == count >= 1
GateFiresFirstOpen(count) == count = 1

\* Mutant of the gate test: the gate waits for a third open.
GateFiresAboveTwo(count) == count > 2

\* `if count == 2`
GateFires(count) == count = 2

\* Option::take on the slot followed by `b.shutdown()` when it held a Bridge.
TakeAndShutdown ==
    /\ bridge' = "none"
    /\ sup_shutdowns' = IF bridge = "none" THEN sup_shutdowns
                        ELSE [sup_shutdowns EXCEPT ![bridge] = @ + 1]

\* Mutant of OnErrReturn: the `return` of the Err arm is lost.
OnErrContinue(ok, next) == next

\* The Err arms of the offer steps: `error!(...); return;`
OnErrReturn(ok, next) == IF ok THEN next ELSE "exited"

\* Mutant of LockFree: the writer is not behind a mutex.
LockFreeAlways == TRUE

\* `ws_sender.lock().await` is granted when nobody holds the mutex.
LockFree == ws_lock = Nobody

\* The signaling connection has ended: the loop of handle_ws_messages was
\* left on a Close frame, an error, or the end of the stream.
WsEnded == ws_last \in {"close", "error", "end"}

\* The session is closed: the signaling connection has ended, or the peer
\* session reported Failed, Disconnected or Closed.
SessionClosed == WsEnded \/ peer_down

\* What sender.send may return: a WebSocket that received a Close frame,
\* failed, or reached its end accepts no further text frame.
SendResults == IF WsEnded THEN {FALSE} ELSE BOOLEAN

\* peer.create_offer(None).await
CreateOffer ==
    /\ hpc = "create_offer"
    /\ \E ok \in BOOLEAN, s \in Sdps :
        /\ hpc' = OnErrReturn(ok, "set_local")
        /\ offer' = IF ok THEN s ELSE offer
        /\ herr' = IF ok THEN herr ELSE "create_offer"
    /\ UNCHANGED <<remote_set, channels_open, gpc, gcount, bridge, bst,
                   sup_shutdowns, state_changes>>
    /\ UNCHANGED <<peer_down, ws_msg, ws_last, local_desc, ws_lock, ws_out, cpc,
                   creport>>
    /\ UNCHANGED brVars

\* Mutant of SetLocalDescription: the offer is never registered.
SetLocalDescriptionSkipped ==
    /\ hpc = "set_local"
    /\ hpc' = "send_offer"
    /\ UNCHANGED <<remote_set, channels_open, gpc, gcount, bridge, bst,
                   sup_shutdowns, state_changes>>
    /\ UNCHANGED <<peer_down, ws_msg, ws_last, herr, offer, local_desc, ws_lock,
                   ws_out, cpc,
                   creport>>
    /\ UNCHANGED brVars

\* peer.set_local_description(offer.clone()).await
SetLocalDescription ==
    /\ hpc = "set_local"
    /\ \E ok \in BOOLEAN :
        /\ hpc' = OnErrReturn(ok, "send_offer")
        /\ local_desc' = IF ok THEN offer ELSE local_desc
        /\ herr' = IF ok THEN herr ELSE "set_local"
    /\ UNCHANGED <<remote_set, channels_open, gpc, gcount, bridge, bst,
                   sup_shutdowns, state_changes>>
    /\ UNCHANGED <<peer_down, ws_msg, ws_last, offer, ws_lock, ws_out, cpc,
                   creport>>
    /\ UNCHANGED brVars

\* `let mut sender = ws_sender.lock().await;` of the offer block
LockOffer ==
    /\ hpc = "send_offer"
    /\ LockFree
    /\ ws_lock' = OfferWriter
    /\ hpc' = "sending_offer"
    /\ UNCHANGED <<remote_set, channels_open, gpc, gcount, bridge, bst,
                   sup_shutdowns, state_changes>>
    /\ UNCHANGED <<peer_down, ws_msg, ws_last, herr, offer, local_desc, ws_out,
                   cpc, creport>>
    /\ UNCHANGED brVars

\* sender.send(Message::Text(offer)).await returns; the guard is dropped at
\* the end of the block, or by the `return` of the Err arm.
SendOffer ==
    /\ hpc = "sending_offer"
    /\ \E ok \in BOOLEAN :
        /\ hpc' = OnErrReturn(ok, "ws_loop")
        /\ ws_out' = IF ok THEN Append(ws_out, [event |-> "offer", data |-> offer])
                     ELSE ws_out
        /\ herr' = IF ok THEN herr ELSE "send_offer"
    /\ ws_lock' = Nobody
    /\ UNCHANGED <<remote_set, channels_open, gpc, gcount, bridge, bst,
                   sup_shutdowns, state_changes>>
    /\ UNCHANGED <<peer_down, ws_msg, ws_last, offer, local_desc, cpc,
                   creport>>
    /\ UNCHANGED brVars

\* `receiver.next().await` returns the next frame, an error, or the end of
\* the stream.
WsNext ==
    /\ hpc = "ws_loop"
    /\ ws_msg = "none"
    /\ \E ev \in WsEvents : ws_msg' = ev
    /\ UNCHANGED <<hpc, remote_set, channels_open, gpc, gcount, bridge, bst,
                   sup_shutdowns, state_changes>>
    /\ UNCHANGED <<peer_down, ws_last, herr, offer, local_desc, ws_lock, ws_out,
                   cpc, creport>>
    /\ UNCHANGED brVars

\* Mutant of WsArm: a candidate that cannot be added ends the loop.
WsArmCandidateFatal(ev) ==
    CASE ev \in {"close", "error", "end", "candidate_rejected", "candidate_bad"}
            -> "cleanup"
      [] ev = "answer_malformed" -> "panicked"
      [] OTHER -> "ws_loop"

\* Mutant of WsArm: an event that is not understood ends the loop.
WsArmStrict(ev) ==
    CASE ev \in {"close", "error", "end", "unknown", "invalid_json"} -> "cleanup"
      [] ev = "answer_malformed" -> "panicked"
      [] OTHER -> "ws_loop"

\* Where the match on `msg` leaves the handler: Close, Err and the end of the
\* stream leave the loop; RTCSessionDescription::answer parses the SDP and
\* returns Err when it does not parse, so the `.unwrap()` on it panics and
\* the handler's task unwinds without reaching the cleanup; every other arm
\* goes round the loop.
WsArm(ev) ==
    CASE ev \in {"close", "error", "end"} -> "cleanup"
      [] ev = "answer_malformed" -> "panicked"
      [] OTHER -> "ws_loop"

\* The body of one turn of the `while let Some(msg) = receiver.next().await`
\* loop. A later answer that the peer session rejects leaves the remote
\* description it already holds.
HandleWsMessage ==
    /\ hpc = "ws_loop"
    /\ ws_msg # "none"
    /\ hpc' = WsArm(ws_msg)
    /\ remote_set' = (remote_set \/ ws_msg = "answer_ok")
    /\ ws_msg' = "none"
    /\ ws_last' = ws_msg
    /\ UNCHANGED <<channels_open, gpc, gcount, bridge, bst, sup_shutdowns,
                   state_changes>>
    /\ UNCHANGED <<peer_down, herr, offer, local_desc, ws_lock, ws_out, cpc,
                   creport>>
    /\ UNCHANGED brVars

\* Mutant of AfterReport: the end-of-gathering None is forwarded too.
AfterReportForwardsNone(kind) ==
    CASE kind = "unserializable" -> "unserializable"
      [] OTHER -> "lock"

\* Where the callback goes with what it was given: `if let Some(c)` skips
\* None, the Err arm of c.to_json() logs, the Ok arm goes on to the mutex.
AfterReport(kind) ==
    CASE kind = "some" -> "lock"
      [] kind = "unserializable" -> "unserializable"
      [] OTHER -> "skipped"

\* peer.on_ice_candidate's callback is invoked. The peer session gathers
\* candidates once it has a local description. None and a candidate that does
\* not serialize end the callback at once.
OnIceCandidate(i) ==
    /\ cpc[i] = "idle"
    /\ local_desc # "none"
    /\ \E kind \in CandKinds :
        /\ cpc' = [cpc EXCEPT ![i] = AfterReport(kind)]
        /\ creport' = [creport EXCEPT
                         ![i] = [kind |-> kind, closed |-> SessionClosed]]
    /\ UNCHANGED <<hpc, remote_set, channels_open, gpc, gcount, bridge, bst,
                   sup_shutdowns, state_changes>>
    /\ UNCHANGED <<peer_down, ws_msg, ws_last, herr, offer, local_desc, ws_lock,
                   ws_out>>
    /\ UNCHANGED brVars

\* `let mut sender = ws_sender.lock().await;` of the callback
CandLock(i) ==
    /\ cpc[i] = "lock"
    /\ LockFree
    /\ ws_lock' = CandWriter(i)
    /\ cpc' = [cpc EXCEPT ![i] = "sending"]
    /\ UNCHANGED creport
    /\ UNCHANGED <<hpc, remote_set, channels_open, gpc, gcount, bridge, bst,
                   sup_shutdowns, state_changes>>
    /\ UNCHANGED <<peer_down, ws_msg, ws_last, herr, offer, local_desc, ws_out>>
    /\ UNCHANGED brVars

\* sender.send(Message::Text(json_str)).await returns in the callback; an Err
\* is logged; the guard is dropped at the end of the arm.
CandSend(i) ==
    /\ cpc[i] = "sending"
    /\ \E ok \in SendResults :
        /\ ws_out' = IF ok THEN Append(ws_out, [event |-> "candidate", data |-> i])
                     ELSE ws_out
        /\ cpc' = [cpc EXCEPT ![i] = IF ok THEN "sent" ELSE "send_failed"]
    /\ ws_lock' = Nobody
    /\ UNCHANGED creport
    /\ UNCHANGED <<hpc, remote_set, channels_open, gpc, gcount, bridge, bst,
                   sup_shutdowns, state_changes>>
    /\ UNCHANGED <<peer_down, ws_msg, ws_last, herr, offer, local_desc>>
    /\ UNCHANGED brVars

\* `if let Some(b) = bridge.lock().await.take() { b.shutdown(); }` and return.
CleanupSess ==
    /\ hpc = "cleanup"
    /\ hpc' = "exited"
    /\ TakeAndShutdown
    /\ UNCHANGED <<remote_set, channels_open, gpc, gcount, bst, state_changes>>
    /\ UNCHANGED sigVars

Cleanup == CleanupSess /\ UNCHANGED brVars

\* A channel's on_open callback: start_bridge up to its first await. The
\* peer session opens a data channel only once it holds the remote answer,
\* and calls a channel's on_open handler once. Neither the handler's return
\* nor its panic closes the peer session (nothing calls peer.close()), so the
\* channels may still open afterwards.
OnOpen(c) ==
    /\ remote_set
    /\ gpc[c] = "idle"
    /\ channels_open' = FetchAdd(channels_open)
    /\ gcount' = [gcount EXCEPT ![c] = FetchAdd(channels_open)]
    /\ gpc' = [gpc EXCEPT ![c] = IF GateFires(FetchAdd(channels_open))
                                 THEN "new" ELSE "done"]
    /\ UNCHANGED <<hpc, remote_set, bridge, bst, sup_shutdowns, state_changes>>
    /\ UNCHANGED sigVars
    /\ UNCHANGED brVars

\* Bridge::new(...).await returns: Ok(b) or Err(e) (bind or connect failed).
BridgeNew(c) ==
    /\ gpc[c] = "new"
    /\ \E ok \in BOOLEAN :
        /\ gpc' = [gpc EXCEPT ![c] = IF ok THEN "store" ELSE "done"]
        /\ bst' = [bst EXCEPT ![c] = IF ok THEN "built" ELSE "failed"]
    /\ UNCHANGED <<hpc, remote_set, channels_open, gcount, bridge,
                   sup_shutdowns, state_changes>>
    /\ UNCHANGED sigVars
    /\ UNCHANGED brVars

\* `*bridge.lock().await = Some(b.clone());`
StoreBridge(c) ==
    /\ gpc[c] = "store"
    /\ bridge' = c
    /\ bst' = [bst EXCEPT ![c] = "stored"]
    /\ gpc' = [gpc EXCEPT ![c] = "spawn"]
    /\ UNCHANGED <<hpc, remote_set, channels_open, gcount, sup_shutdowns,
                   state_changes>>
    /\ UNCHANGED sigVars
    /\ UNCHANGED brVars

\* `tokio::spawn(async move { b.start().await; });`
SpawnStartSess(c) ==
    /\ gpc[c] = "spawn"
    /\ bst' = [bst EXCEPT ![c] = "started"]
    /\ gpc' = [gpc EXCEPT ![c] = "done"]
    /\ UNCHANGED <<hpc, remote_set, channels_open, gcount, bridge,
                   sup_shutdowns, state_changes>>
    /\ UNCHANGED sigVars

SpawnStart(c) == SpawnStartSess(c) /\ UNCHANGED brVars

\* The on_peer_connection_state_change callback.
OnPeerStateChangeSess ==
    /\ state_changes < MaxStateChanges
    /\ state_changes' = state_changes + 1
    /\ \E st \in PeerStates :
        IF st \in {"Failed", "Disconnected", "Closed"}
        THEN TakeAndShutdown /\ peer_down' = TRUE
        ELSE UNCHANGED <<bridge, sup_shutdowns, peer_down>>
    /\ UNCHANGED <<hpc, remote_set, channels_open, gpc, gcount, bst>>
    /\ UNCHANGED <<ws_msg, ws_last, herr, offer, local_desc, ws_lock, ws_out,
                   cpc, creport>>

OnPeerStateChange == OnPeerStateChangeSess /\ UNCHANGED brVars

Init == SessInit /\ BrIdle

Next ==
    \/ CreateOffer
    \/ SetLocalDescription
    \/ LockOffer
    \/ SendOffer
    \/ WsNext
    \/ HandleWsMessage
    \/ Cleanup
    \/ \E c \in Chans : OnOpen(c)
    \/ \E c \in Chans : BridgeNew(c)
    \/ \E c \in Chans : StoreBridge(c)
    \/ \E c \in Chans : SpawnStart(c)
    \/ OnPeerStateChange

Spec == Init /\ [][Next]_vars

\* Spec with the scheduling of the runtime: the task that runs an on_open
\* callback is polled until the callback returns.
FairSpec ==
    /\ Spec
    /\ \A c \in Chans : WF_vars(BridgeNew(c))
    /\ \A c \in Chans : WF_vars(StoreBridge(c))
    /\ \A c \in Chans : WF_vars(SpawnStart(c))

\* The frames the signaling connection delivers in CandSpec and SysSpec.
SysWsEvents == {"answer_ok", "unknown", "close"}

SysWsNext == WsNext /\ ws_msg' \in SysWsEvents

\* The writers of the signaling transport: the handler and the candidate
\* callbacks, which the peer session runs on its own tasks.
SigNext ==
    \/ CreateOffer
    \/ SetLocalDescription
    \/ LockOffer
    \/ SendOffer
    \/ WsNext
    \/ HandleWsMessage
    \/ Cleanup
    \/ \E i \in Cands : OnIceCandidate(i)
    \/ \E i \in Cands : CandLock(i)
    \/ \E i \in Cands : CandSend(i)

SigSpec == Init /\ [][SigNext]_vars

\* SigSpec with the scheduling of the runtime: a send that was begun returns,
\* and tokio's Mutex is fair, so a task that waits for it gets it.
FairSigSpec ==
    /\ SigSpec
    /\ WF_vars(SendOffer)
    /\ \A i \in Cands : WF_vars(CandSend(i))
    /\ \A i \in Cands : SF_vars(CandLock(i))

\* The candidate callbacks in a session that closes: the handler, the
\* callbacks and the state monitor.
CandNext ==
    \/ CreateOffer
    \/ SetLocalDescription
    \/ LockOffer
    \/ SendOffer
    \/ SysWsNext
    \/ HandleWsMessage
    \/ Cleanup
    \/ \E i \in Cands : OnIceCandidate(i)
    \/ \E i \in Cands : CandLock(i)
    \/ \E i \in Cands : CandSend(i)
    \/ OnPeerStateChange

CandSpec == Init /\ [][CandNext]_vars

\* ================================================================= bridge

\* The Bridge's `shutdown: Arc<Notify>` as one value.
NotifyState == [permit |-> permit, waiters |-> waiters, woken |-> woken]

SetNotify(n) ==
    /\ permit' = n.permit
    /\ waiters' = n.waiters
    /\ woken' = n.woken

\* Mutant of notify_one: nothing is stored when nobody is parked (the
\* behaviour of notify_waiters).
notify_one_no_permit(n) ==
    IF n.waiters # <<>>
    THEN [n EXCEPT !.woken = @ \cup {Head(n.waiters)}, !.waiters = Tail(@)]
    ELSE n

\* Notify::notify_one: hand the notification to the oldest parked task, or
\* store one permit when nobody is parked (a second permit is not stored).
notify_one(n) ==
    IF n.waiters # <<>>
    THEN [n EXCEPT !.woken = @ \cup {Head(n.waiters)}, !.waiters = Tail(@)]
    ELSE [n EXCEPT !.permit = TRUE]

\* Mutant of drop_notified: a notification handed to a future that is
\* dropped goes with it.
drop_notified_loses(n, t) ==
    IF t \in n.woken
    THEN [n EXCEPT !.woken = @ \ {t}]
    ELSE [n EXCEPT !.waiters = SelectSeq(@, LAMBDA x : x # t)]

\* A Notified future of task t is dropped before it completed: it leaves the
\* wait list; a notification it had been handed goes to the next task.
drop_notified(n, t) ==
    IF t \in n.woken
    THEN notify_one([n EXCEPT !.woken = @ \ {t}])
    ELSE [n EXCEPT !.waiters = SelectSeq(@, LAMBDA x : x # t)]

Min(a, b) == IF a < b THEN a ELSE b

\* Mutant of RecvLen: a receive buffer of one Ethernet frame.
RecvLenSmallBuf(d) == Min(d.len, 1500)

\* `udp_socket.recv(&mut buf)` into a buffer of MAX_PACKET_SIZE bytes: n.
RecvLen(d) == Min(d.len, MAX_PACKET_SIZE)

\* `Bytes::copy_from_slice(&buf[..n])`
CopyFromSlice(d, n) == [tag |-> d.tag, len |-> n]

\* Mutant of AfterRecv: the guard `n > 0` is lost, empty datagrams are sent.
AfterRecvSendsEmpty(n) == IF n >= 0 THEN "send" ELSE "top"

\* The match on recv's Ok(n): `Ok(n) if n > 0` sends, `Ok(_)` loops.
AfterRecv(n) == IF n > 0 THEN "send" ELSE "top"

FwdRunning == fpc \in {"top", "select", "send"}
FwdStopped == fpc \in {"done_shutdown", "done_recv_err", "done_send_err", "aborted"}

\* The state BridgeSpec starts in: both channels opened, the read channel's
\* start_bridge invocation built the Bridge, stored it and spawned start().
SessBridgeUp ==
    /\ hpc = "ws_loop"
    /\ remote_set = TRUE
    /\ channels_open = 2
    /\ gpc = [c \in Chans |-> "done"]
    /\ gcount = [c \in Chans |-> IF c = "write" THEN 1 ELSE 2]
    /\ bridge = "read"
    /\ bst = [c \in Chans |-> IF c = "read" THEN "started" ELSE "none"]
    /\ sup_shutdowns = [c \in Chans |-> 0]
    /\ state_changes = 0
    /\ peer_down = FALSE
    /\ ws_msg = "none"
    /\ ws_last = "none"
    /\ herr = "none"
    /\ offer = "sdp_a"
    /\ local_desc = "sdp_a"
    /\ ws_lock = Nobody
    /\ ws_out = <<[event |-> "offer", data |-> "sdp_a"]>>
    /\ cpc = [i \in Cands |-> "idle"]
    /\ creport = [i \in Cands |-> NotReported]

BridgeInit ==
    /\ SessBridgeUp
    /\ spc = "init"
    /\ fpc = "unspawned"
    /\ handlers = FALSE
    /\ read_closed = FALSE
    /\ permit = FALSE
    /\ waiters = <<>>
    /\ woken = {}
    /\ abort_req = FALSE
    /\ triggers = 0
    /\ fdata = NoData
    /\ udp_recvd = <<>>
    /\ out = <<>>
    /\ in_msgs = <<>>
    /\ udp_sent = <<>>

\* ---- Bridge::start

\* `tokio::spawn(bridge.forward_udp_to_webrtc())`
StartSpawnFwd ==
    /\ spc = "init"
    /\ spc' = "setup"
    /\ fpc' = "top"
    /\ UNCHANGED <<handlers, read_closed, permit, waiters, woken, abort_req,
                   triggers, fdata, udp_recvd, out, in_msgs, udp_sent>>
    /\ UNCHANGED sessVars

\* `self_clone.setup_webrtc_to_udp()`: on_message, on_close, on_error installed.
StartSetup ==
    /\ spc = "setup"
    /\ spc' = "wait"
    /\ handlers' = TRUE
    /\ UNCHANGED <<fpc, read_closed, permit, waiters, woken, abort_req,
                   triggers, fdata, udp_recvd, out, in_msgs, udp_sent>>
    /\ UNCHANGED sessVars

\* `self.shutdown.notified().await` is polled for the first time: a stored
\* permit completes it (and start goes on to abort and return), else it parks.
StartNotified ==
    /\ spc = "wait"
    /\ IF permit
       THEN /\ permit' = FALSE
            /\ spc' = "done"
            /\ abort_req' = TRUE
            /\ UNCHANGED <<waiters, woken>>
       ELSE /\ waiters' = Append(waiters, "start")
            /\ spc' = "parked"
            /\ UNCHANGED <<permit, woken, abort_req>>
    /\ UNCHANGED <<fpc, handlers, read_closed, triggers, fdata, udp_recvd, out,
                   in_msgs, udp_sent>>
    /\ UNCHANGED sessVars

\* The parked start() was handed the notification: `udp_to_webrtc.abort()`,
\* the log line, return.
StartWake ==
    /\ spc = "parked"
    /\ "start" \in woken
    /\ woken' = woken \ {"start"}
    /\ spc' = "done"
    /\ abort_req' = TRUE
    /\ UNCHANGED <<fpc, handlers, read_closed, permit, waiters, triggers, fdata,
                   udp_recvd, out, in_msgs, udp_sent>>
    /\ UNCHANGED sessVars

\* ---- forward_udp_to_webrtc

\* select!: the recv branch completes with Ok(n). The Notified of this turn of
\* the loop is dropped. A task parked in select! that was aborted is not
\* polled again.
FwdRecv ==
    /\ fpc \in {"top", "select"}
    /\ ~(fpc = "select" /\ abort_req)
    /\ Len(udp_recvd) < MaxDatagrams
    /\ \E d \in Datagrams :
        /\ udp_recvd' = Append(udp_recvd, d)
        /\ fpc' = AfterRecv(RecvLen(d))
        /\ fdata' = IF AfterRecv(RecvLen(d)) = "send"
                    THEN CopyFromSlice(d, RecvLen(d)) ELSE fdata
    /\ SetNotify(IF fpc = "select" THEN drop_notified(NotifyState, "fwd")
                 ELSE NotifyState)
    /\ UNCHANGED <<spc, handlers, read_closed, abort_req, triggers, out,
                   in_msgs, udp_sent>>
    /\ UNCHANGED sessVars

\* select!: the recv branch completes with Err(e): log, break.
FwdRecvErr ==
    /\ fpc \in {"top", "select"}
    /\ ~(fpc = "select" /\ abort_req)
    /\ fpc' = "done_recv_err"
    /\ SetNotify(IF fpc = "select" THEN drop_notified(NotifyState, "fwd")
                 ELSE NotifyState)
    /\ UNCHANGED <<spc, handlers, read_closed, abort_req, triggers, fdata,
                   udp_recvd, out, in_msgs, udp_sent>>
    /\ UNCHANGED sessVars

\* select!: neither branch is ready: the task parks on both.
FwdPark ==
    /\ fpc = "top"
    /\ ~permit
    /\ waiters' = Append(waiters, "fwd")
    /\ fpc' = "select"
    /\ UNCHANGED <<spc, handlers, read_closed, permit, woken, abort_req,
                   triggers, fdata, udp_recvd, out, in_msgs, udp_sent>>
    /\ UNCHANGED sessVars

\* select!: the notified() branch completes on its first poll (stored permit).
FwdTakePermit ==
    /\ fpc = "top"
    /\ permit
    /\ permit' = FALSE
    /\ fpc' = "done_shutdown"
    /\ UNCHANGED <<spc, handlers, read_closed, waiters, woken, abort_req,
                   triggers, fdata, udp_recvd, out, in_msgs, udp_sent>>
    /\ UNCHANGED sessVars

\* select!: the parked task was handed the notification: break.
FwdWake ==
    /\ fpc = "select"
    /\ ~abort_req
    /\ "fwd" \in woken
    /\ woken' = woken \ {"fwd"}
    /\ fpc' = "done_shutdown"
    /\ UNCHANGED <<spc, handlers, read_closed, permit, waiters, abort_req,
                   triggers, fdata, udp_recvd, out, in_msgs, udp_sent>>
    /\ UNCHANGED sessVars

\* `self.write_channel.send(&data).await` returns: Ok loops, Err breaks.
FwdSend ==
    /\ fpc = "send"
    /\ \E ok \in BOOLEAN :
        /\ out' = IF ok THEN Append(out, fdata) ELSE out
        /\ fpc' = IF ok THEN "top" ELSE "done_send_err"
    /\ UNCHANGED <<spc, handlers, read_closed, permit, waiters, woken,
                   abort_req, triggers, fdata, udp_recvd, in_msgs, udp_sent>>
    /\ UNCHANGED sessVars

\* The aborted task is dropped (its futures with it). abort() only marks the
\* task: one that is being polled on another worker runs on until it next
\* yields, so the loop's steps from "top" and "send" stay possible until then.
FwdCancelled ==
    /\ abort_req
    /\ FwdRunning
    /\ fpc' = "aborted"
    /\ SetNotify(IF fpc = "select" THEN drop_notified(NotifyState, "fwd")
                 ELSE NotifyState)
    /\ UNCHANGED <<spc, handlers, read_closed, abort_req, triggers, fdata,
                   udp_recvd, out, in_msgs, udp_sent>>
    /\ UNCHANGED sessVars

\* ---- read-channel callbacks and Bridge::shutdown

\* Mutant of OnMessage: an empty message is not sent.
OnMessageSkipsEmpty(m, ok) ==
    /\ handlers
    /\ ~read_closed
    /\ Len(in_msgs) < MaxMessages
    /\ in_msgs' = Append(in_msgs, m)
    /\ udp_sent' = IF m.len > 0 THEN Append(udp_sent, [data |-> m, ok |-> ok])
                   ELSE udp_sent
    /\ UNCHANGED <<spc, fpc, handlers, read_closed, permit, waiters, woken,
                   abort_req, triggers, fdata, udp_recvd, out>>
    /\ UNCHANGED sessVars

\* Mutant of OnMessage: a failed send triggers the shutdown signal.
OnMessageFatal(m, ok) ==
    /\ handlers
    /\ ~read_closed
    /\ Len(in_msgs) < MaxMessages
    /\ in_msgs' = Append(in_msgs, m)
    /\ udp_sent' = Append(udp_sent, [data |-> m, ok |-> ok])
    /\ SetNotify(IF ok THEN NotifyState ELSE notify_one(NotifyState))
    /\ UNCHANGED <<spc, fpc, handlers, read_closed, abort_req, triggers, fdata,
                   udp_recvd, out>>
    /\ UNCHANGED sessVars

\* on_message: `udp_socket.send(&data).await`, an error is logged.
OnMessage(m, ok) ==
    /\ handlers
    /\ ~read_closed
    /\ Len(in_msgs) < MaxMessages
    /\ in_msgs' = Append(in_msgs, m)
    /\ udp_sent' = Append(udp_sent, [data |-> m, ok |-> ok])
    /\ UNCHANGED <<spc, fpc, handlers, read_closed, permit, waiters, woken,
                   abort_req, triggers, fdata, udp_recvd, out>>
    /\ UNCHANGED sessVars

\* Mutant of OnClose: the callback does not notify.
OnCloseSilent ==
    /\ handlers
    /\ ~read_closed
    /\ triggers < MaxTriggers
    /\ triggers' = triggers + 1
    /\ read_closed' = TRUE
    /\ UNCHANGED <<spc, fpc, handlers, permit, waiters, woken, abort_req,
                   fdata, udp_recvd, out, in_msgs, udp_sent>>
    /\ UNCHANGED sessVars

\* on_close: `shutdown_clone.notify_one()`
OnClose ==
    /\ handlers
    /\ ~read_closed
    /\ triggers < MaxTriggers
    /\ triggers' = triggers + 1
    /\ read_closed' = TRUE
    /\ SetNotify(notify_one(NotifyState))
    /\ UNCHANGED <<spc, fpc, handlers, abort_req, fdata, udp_recvd, out,
                   in_msgs, udp_sent>>
    /\ UNCHANGED sessVars

\* on_error: `shutdown_clone.notify_one()`
OnError ==
    /\ handlers
    /\ triggers < MaxTriggers
    /\ triggers' = triggers + 1
    /\ SetNotify(notify_one(NotifyState))
    /\ UNCHANGED <<spc, fpc, handlers, read_closed, abort_req, fdata,
                   udp_recvd, out, in_msgs, udp_sent>>
    /\ UNCHANGED sessVars

\* Bridge::shutdown: `self.shutdown.notify_one()`
Shutdown ==
    /\ triggers < MaxTriggers
    /\ triggers' = triggers + 1
    /\ SetNotify(notify_one(NotifyState))
    /\ UNCHANGED <<spc, fpc, handlers, read_closed, abort_req, fdata,
                   udp_recvd, out, in_msgs, udp_sent>>
    /\ UNCHANGED sessVars

BridgeNext ==
    \/ StartSpawnFwd
    \/ StartSetup
    \/ StartNotified
    \/ StartWake
    \/ FwdRecv
    \/ FwdRecvErr
    \/ FwdPark
    \/ FwdTakePermit
    \/ FwdWake
    \/ FwdSend
    \/ FwdCancelled
    \/ Shutdown
    \/ \E m \in Messages, ok \in BOOLEAN : OnMessage(m, ok)
    \/ OnClose
    \/ OnError

BridgeSpec == BridgeInit /\ [][BridgeNext]_vars

\* ---- The session together with its Bridge

\* `b.shutdown()` in the step that takes a Bridge out of the slot: the
\* Bridge's Notify, which Bridge::new created, is notified.
ShutdownTaken ==
    /\ IF bridge # "none" /\ bridge' = "none"
       THEN /\ triggers' = triggers + 1
            /\ SetNotify(notify_one(NotifyState))
       ELSE UNCHANGED <<triggers, permit, waiters, woken>>
    /\ UNCHANGED <<spc, fpc, handlers, read_closed, abort_req, fdata,
                   udp_recvd, out, in_msgs, udp_sent>>

\* The steps of the session that leave the Bridge alone.
SessStep ==
    \/ CreateOffer
    \/ SetLocalDescription
    \/ LockOffer
    \/ SendOffer
    \/ HandleWsMessage
    \/ \E c \in Chans : OnOpen(c)
    \/ \E c \in Chans : BridgeNew(c)
    \/ \E c \in Chans : StoreBridge(c)

\* `tokio::spawn(async move { bridge_clone.start().await })`: the task of
\* Bridge::start exists from here on.
SysSpawnStart(c) ==
    /\ SpawnStartSess(c)
    /\ spc' = "init"
    /\ UNCHANGED <<fpc, handlers, read_closed, permit, waiters, woken,
                   abort_req, triggers, fdata, udp_recvd, out, in_msgs,
                   udp_sent>>

SysCleanup == CleanupSess /\ ShutdownTaken

SysOnPeerStateChange == OnPeerStateChangeSess /\ ShutdownTaken

\* The traffic of SysSpec and ReadChanSpec.
LightTraffic ==
    /\ Len(udp_recvd') <= MaxLightTraffic
    /\ Len(in_msgs') <= MaxLightTraffic

\* The steps of the Bridge's two tasks and the messages of its read channel.
BridgeStep ==
    \/ StartSpawnFwd
    \/ StartSetup
    \/ StartNotified
    \/ StartWake
    \/ FwdRecv /\ LightTraffic
    \/ FwdRecvErr
    \/ FwdPark
    \/ FwdTakePermit
    \/ FwdWake
    \/ FwdSend
    \/ FwdCancelled
    \/ \E m \in Messages, ok \in BOOLEAN : OnMessage(m, ok) /\ LightTraffic

\* The session with its Bridge; the Bridge is shut down by the session.
SysNext ==
    \/ SessStep
    \/ SysWsNext
    \/ \E c \in Chans : SysSpawnStart(c)
    \/ SysCleanup
    \/ SysOnPeerStateChange
    \/ BridgeStep

SysSpec == Init /\ [][SysNext]_vars

\* A Bridge whose shutdown signal is triggered by its read channel only.
ReadChanNext ==
    \/ BridgeStep
    \/ OnClose
    \/ OnError

ReadChanSpec == BridgeInit /\ [][ReadChanNext]_vars

\* A Bridge, with little traffic, whose shutdown signal is triggered from
\* any of its sources.
TrigNext ==
    \/ BridgeStep
    \/ OnClose
    \/ OnError
    \/ Shutdown

\* The steps Bridge::start takes by itself, and those of the loop's task.
StartRuns == StartSpawnFwd \/ StartSetup \/ StartNotified \/ StartWake
FwdRuns == FwdPark \/ FwdTakePermit \/ FwdWake \/ FwdSend \/ FwdCancelled

\* The runtime polls a task that is ready to run; what arrives from outside
\* (datagrams, messages, triggers) is under no obligation.
FairTrigSpec ==
    /\ BridgeInit
    /\ [][TrigNext]_vars
    /\ WF_vars(StartRuns)
    /\ WF_vars(FwdRuns)

\* ================================================================= claims

Built(c) == bst[c] \notin {"none", "failed"}
Observed2 == {c \in Chans : gcount[c] = 2}

\* C1: whatever the order of the two channel-open notifications, exactly one
\* start_bridge invocation observes the post-increment value 2 (at most one
\* while an open is outstanding, exactly one once both have run), only that
\* invocation constructs a Bridge, and at most one Bridge is built or started.
C1_BridgeCreatedOnce ==
    /\ Cardinality(Observed2) <= 1
    /\ (\A c \in Chans : gpc[c] # "idle") => Cardinality(Observed2) = 1
    /\ \A c \in Chans :
        (gpc[c] \in {"new", "store", "spawn"} \/ Built(c)) => gcount[c] = 2
    /\ Cardinality({c \in Chans : Built(c)}) <= 1
    /\ Cardinality({c \in Chans : bst[c] = "started"}) <= 1

\* C1 witness: the write channel opened first, the read channel second, and
\* the read channel's invocation built and started the Bridge.
C1_Witness ==
    /\ gcount["write"] = 1
    /\ gcount["read"] = 2
    /\ gpc["write"] = "done"
    /\ gpc["read"] = "done"
    /\ bst["read"] = "started"
    /\ bst["write"] = "none"

\* C2: the channel-open counter stays in 0..2, and a Bridge exists (being
\* stored, built, in the slot, or started) only when the counter equals 2.
C2_BridgeOnlyAtTwo ==
    /\ channels_open \in 0..2
    /\ ((\E c \in Chans : Built(c) \/ gpc[c] \in {"store", "spawn"})
        \/ bridge # "none") => channels_open = 2

\* C2 witness: one channel opened and the other never did; the session ended
\* with the counter at 1 and no Bridge.
C2_Witness ==
    /\ channels_open = 1
    /\ hpc = "exited"
    /\ bridge = "none"
    /\ \A c \in Chans : ~Built(c)

\* C3 (as claimed): once the handler has returned, every Bridge created for
\* the session has been shut down by the supervisor, exactly once.
C3_ExitShutsBridgeDown ==
    hpc = "exited" => \A c \in Chans : Built(c) => sup_shutdowns[c] = 1

\* ---- bridge claims (BridgeSpec)

NonEmpty(seq) == SelectSeq(seq, LAMBDA d : d.len > 0)
Count(seq, x) == Cardinality({i \in DOMAIN seq : seq[i] = x})
LastOf(seq) == seq[Len(seq)]

\* The signal was triggered and the UDP loop has stopped on it.
ShutdownObserved == triggers >= 1 /\ fpc \in {"done_shutdown", "aborted"}

\* The read-channel messages that went out on the UDP socket.
UdpDelivered == SelectSeq(udp_sent, LAMBDA e : e.ok)

\* C4 (as claimed): once the shutdown signal has been triggered and observed,
\* nothing more is written to the write channel and nothing more goes out on
\* the UDP socket.
C4_NoForwardAfterShutdown ==
    [][ShutdownObserved => (out' = out /\ UdpDelivered' = UdpDelivered)]_vars

\* C5 (as claimed): when the UDP loop has ended on a receive error or a
\* write error, the shutdown signal has been triggered (a notification is
\* pending, or Bridge::start has taken it and returned).
C5_LoopErrorTriggersShutdown ==
    fpc \in {"done_recv_err", "done_send_err"} =>
        (permit \/ woken # {} \/ spc = "done")

\* No notification is pending and no abort is outstanding.
Settled ==
    /\ ~permit
    /\ woken = {}
    /\ ~(abort_req /\ FwdRunning)

\* C6: after one or more triggers of the shutdown signal, from any sources
\* and at any points, once nothing is pending the UDP loop has stopped; the
\* Notify never holds more than its one permit, a permit is never held while
\* tasks are parked, and each task is parked at most once (no state a
\* redundant trigger could corrupt).
C6_ShutdownIdempotent ==
    /\ (triggers >= 1 /\ Settled) => FwdStopped
    /\ permit => waiters = <<>>
    /\ \A t \in {"start", "fwd"} :
        Count(waiters, t) + (IF t \in woken THEN 1 ELSE 0) <= 1
    /\ ("start" \in woken \/ Count(waiters, "start") = 1) <=> spc = "parked"
    /\ ("fwd" \in woken \/ Count(waiters, "fwd") = 1) <=> fpc = "select"

\* C6 witness: the signal was triggered twice, everything has settled, both
\* the loop and Bridge::start have ended.
C6_Witness ==
    /\ triggers = 2
    /\ Settled
    /\ FwdStopped
    /\ spc = "done"

\* C7: every message on the write channel is, byte for byte, a datagram of
\* length 1..MAX_PACKET_SIZE that recv returned; no datagram yields more
\* messages than the times it was received, and whenever the loop is back at
\* its select each received non-empty datagram has yielded exactly one.
C7_DatagramBoundaries ==
    /\ \A i \in DOMAIN out :
        out[i] \in Datagrams /\ out[i].len \in 1..MAX_PACKET_SIZE
    /\ \A d \in Datagrams : d.len >= 1 =>
        /\ Count(out, d) <= Count(udp_recvd, d)
        /\ fpc \in {"top", "select"} => Count(out, d) = Count(udp_recvd, d)

\* C7 witness: a datagram of the largest length and a short one were each
\* forwarded as one message while the Bridge was running.
C7_Witness ==
    /\ spc = "parked"
    /\ fpc = "select"
    /\ udp_recvd = <<[tag |-> "d", len |-> 65536], [tag |-> "d", len |-> 10]>>
    /\ out = udp_recvd

\* C8: the messages written are the non-empty datagrams received, in receive
\* order: always a prefix of them, all of them whenever the loop is back at
\* its select, and short by at most the one datagram in flight (or lost with
\* the failed or aborted write); an empty datagram writes nothing and leaves
\* the loop running.
C8_NonEmptyInOrder ==
    /\ [](LET ne == NonEmpty(udp_recvd) IN
            /\ Len(out) <= Len(ne)
            /\ out = SubSeq(ne, 1, Len(out))
            /\ fpc \in {"top", "select"} => out = ne
            /\ out # ne =>
                /\ Len(ne) = Len(out) + 1
                /\ fpc \in {"send", "done_send_err", "aborted"}
                /\ fdata = LastOf(ne))
    /\ [][(Len(udp_recvd') = Len(udp_recvd) + 1 /\ LastOf(udp_recvd').len = 0)
            => (fpc' = "top" /\ out' = out)]_vars

\* C8 witness: datagrams of 10, 0 and 200 bytes were received and exactly the
\* 10-byte and the 200-byte messages were written, in that order.
C8_Witness ==
    /\ udp_recvd = <<[tag |-> "d", len |-> 10], [tag |-> "d", len |-> 0],
                     [tag |-> "d", len |-> 200]>>
    /\ out = <<[tag |-> "d", len |-> 10], [tag |-> "d", len |-> 200]>>
    /\ fpc = "select"
    /\ spc = "parked"

\* C9: the UDP sends made by on_message are, one for one and in order, the
\* messages that arrived on the read channel, each with the message's bytes.
C9_MessageBoundaries ==
    /\ Len(udp_sent) = Len(in_msgs)
    /\ \A i \in DOMAIN in_msgs : udp_sent[i].data = in_msgs[i]

\* C9 witness: two messages (one of them empty) arrived while the Bridge was
\* running and each was sent.
C9_Witness ==
    /\ spc = "parked"
    /\ Len(in_msgs) = 2
    /\ in_msgs[1].len = 10
    /\ in_msgs[2].len = 0
    /\ udp_sent[1].ok
    /\ udp_sent[2].ok

\* C10: a failed UDP send in on_message changes nothing of the Bridge (the
\* signal, both tasks, the callbacks, the loop's data), and as long as the
\* signal was never triggered the Bridge is not shut down, whatever sends
\* have failed.
C10_SendErrorTolerated ==
    /\ [][(Len(udp_sent') = Len(udp_sent) + 1 /\ ~LastOf(udp_sent').ok)
            => UNCHANGED <<spc, fpc, handlers, read_closed, permit, waiters,
                           woken, abort_req, triggers, fdata, udp_recvd, out>>]_vars
    /\ [](triggers = 0 =>
            (spc # "done" /\ ~abort_req /\ ~permit /\ woken = {}
             /\ fpc \notin {"done_shutdown", "aborted"}))

\* C10 witness: a send failed, the Bridge kept running, and a later message
\* was sent and a datagram forwarded.
C10_Witness ==
    /\ Len(udp_sent) = 2
    /\ ~udp_sent[1].ok
    /\ udp_sent[2].ok
    /\ Len(out) >= 1
    /\ spc = "parked"
    /\ fpc = "select"
    /\ triggers = 0

\* The loop body of handle_ws_messages has run once in this step.
Handled == ws_msg # "none" /\ ws_msg' = "none"

\* C11: an "answer" whose sdp is missing, empty or does not parse is dropped:
\* handling it leaves the handler in its loop, ready for the next message, and
\* the session as it was.
C11_MalformedAnswerDropped ==
    [][(Handled /\ ws_msg = "answer_malformed")
         => (hpc' = "ws_loop" /\ remote_set' = remote_set)]_vars

\* C12: whatever the inbound messages are, the handler does not panic.
C12_HandlerNeverPanics == hpc # "panicked"

\* C13: text that is not the JSON of a signaling message, or whose event is
\* not understood, is ignored: handling it changes nothing of the session and
\* leaves the handler in its loop, about to take the next message.
C13_UnknownIgnored ==
    [][(Handled /\ ws_msg \in {"invalid_json", "unknown"})
         => (/\ hpc' = "ws_loop"
             /\ UNCHANGED <<remote_set, channels_open, gpc, gcount, bridge, bst,
                            sup_shutdowns, state_changes, peer_down, herr,
                            offer, local_desc, ws_lock, ws_out, cpc>>)]_vars

\* C13 witness: the session has its remote description, an ignored message
\* has just been handled, and the handler is back at receiver.next().
C13_Witness ==
    /\ ws_last \in {"invalid_json", "unknown"}
    /\ remote_set
    /\ hpc = "ws_loop"
    /\ ws_msg = "none"

\* Both channels opened and Bridge::new failed for the opener that passed the
\* gate.
BuildFailed == \E c \in Chans : gcount[c] = 2 /\ gpc[c] = "done" /\ bst[c] = "failed"

\* C14: when Bridge::new fails after both channels opened, no Bridge is
\* stored and the handler processes no further signaling message.
C14_BuildFailureFatal ==
    /\ [](BuildFailed => bridge = "none")
    /\ [][BuildFailed => ~Handled]_vars

\* C15: once the peer session has reported Failed, Disconnected or Closed,
\* the session is torn down: the slot is empty and stays empty, and the
\* handler processes no further message.
C15_PeerDownTearsDown ==
    /\ [](peer_down => bridge = "none")
    /\ [][peer_down => ~Handled]_vars

\* C16: when create_offer, set_local_description or the sending of the offer
\* fails, the handler has returned, no offer was sent and no inbound message
\* was taken or handled.
C16_OfferFailureExits ==
    herr # "none" =>
        /\ hpc = "exited"
        /\ \A k \in 1..Len(ws_out) : ws_out[k].event # "offer"
        /\ ws_msg = "none"
        /\ ws_last = "none"
        /\ ~remote_set

\* C16 witness: the offer was created and registered, and sending it failed.
C16_Witness ==
    /\ herr = "send_offer"
    /\ local_desc \in Sdps
    /\ hpc = "exited"

\* The positions of the offers in what was written to the transport.
OffersSent == {k \in 1..Len(ws_out) : ws_out[k].event = "offer"}

\* C17: an offer is written at most once, and only the offer that
\* create_offer returned and set_local_description registered.
C17_OfferAfterRegistration ==
    /\ Cardinality(OffersSent) <= 1
    /\ \A k \in OffersSent :
        /\ local_desc \in Sdps
        /\ ws_out[k].data = local_desc
        /\ ws_out[k].data = offer

\* C17 witness: the offer "sdp_b" is on the transport and the handler went on
\* to handle an answer.
C17_Witness ==
    /\ OffersSent = {1}
    /\ ws_out[1].data = "sdp_b"
    /\ ws_last = "answer_ok"

\* The tasks that are inside a send on the signaling transport.
Writers ==
    (IF hpc = "sending_offer" THEN {OfferWriter} ELSE {})
        \cup {CandWriter(i) : i \in {j \in Cands : cpc[j] = "sending"}}

\* C18: at most one task writes to the signaling transport at a time and it
\* is the holder of the ws_sender mutex; a message appears on the transport
\* in a step of the holder, which writes that one message and releases the
\* mutex.
C18_WritesSerialized ==
    /\ [](Cardinality(Writers) <= 1)
    /\ [](Writers = IF ws_lock = Nobody THEN {} ELSE {ws_lock})
    /\ [][ws_out' # ws_out =>
            /\ Writers = {ws_lock}
            /\ ws_lock' = Nobody
            /\ Len(ws_out') = Len(ws_out) + 1
            /\ SubSeq(ws_out', 1, Len(ws_out)) = ws_out]_vars

\* C18 witness: a candidate callback holds the mutex and is sending while the
\* offer block and the other callback wait for it.
C18_Witness ==
    /\ hpc = "send_offer"
    /\ cpc[1] = "lock"
    /\ cpc[2] = "sending"
    /\ ws_lock = CandWriter(2)

\* Application bytes have moved, or are about to: the UDP loop has written
\* to the write channel or is in its send, or the read channel's handlers
\* are installed or have run.
BytesMoving ==
    \/ out # <<>>
    \/ fpc = "send"
    \/ handlers
    \/ in_msgs # <<>>
    \/ udp_sent # <<>>

\* C19: the UDP loop writes to the write channel, and the read channel's
\* handlers are installed, only after both channels reported open: the
\* counter is 2, both on_open callbacks have run, and Bridge::start has been
\* spawned for the Bridge the gate built.
C19_NoBytesBeforeOpen ==
    BytesMoving =>
        /\ channels_open = 2
        /\ \A c \in Chans : gpc[c] # "idle"
        /\ \E c \in Chans : gcount[c] = 2 /\ bst[c] = "started"
        /\ spc \notin {"unspawned", "init"}

\* C19 witness: both channels opened, the Bridge runs, a datagram went out
\* on the write channel and a message from the read channel went to UDP.
C19_Witness ==
    /\ channels_open = 2
    /\ Len(out) >= 1
    /\ Len(udp_sent) >= 1
    /\ udp_sent[1].ok
    /\ hpc = "ws_loop"

\* C20: a close or an error event of the read channel happens only with the
\* handlers installed and notifies the shutdown signal, touching nothing
\* else of the Bridge; once one or more such events have happened, in either
\* order, and nothing is pending, the UDP loop has stopped; and a stopped
\* loop stays as it stopped, whatever events follow.
C20_ReadChannelStopsLoop ==
    /\ [][triggers' = triggers + 1 =>
            /\ handlers
            /\ NotifyState' = notify_one(NotifyState)
            /\ UNCHANGED <<spc, fpc, abort_req, fdata, udp_recvd, out, in_msgs,
                           udp_sent>>]_vars
    /\ [](triggers >= 1 /\ Settled => FwdStopped)
    /\ [][FwdStopped => fpc' = fpc]_vars

\* C20 witness: the read channel reported an error and then closed (or the
\* reverse) after a datagram was forwarded, and the loop left through its
\* shutdown branch.
C20_Witness ==
    /\ read_closed
    /\ triggers = 2
    /\ Len(out) >= 1
    /\ Settled
    /\ fpc = "done_shutdown"

\* C21: a write to the write channel that has begun is never cancelled: from
\* inside write_channel.send the loop goes on only by that send returning,
\* Ok (back to the select) or Err (break).
C21_SendNotCancelled ==
    [][fpc = "send" => fpc' \in {"send", "top", "done_send_err"}]_vars

\* C27: after a single trigger of the shutdown signal, Bridge::start is never
\* left parked on the signal with the notification consumed and the UDP loop
\* stopped, a state it leaves only by a further trigger.
C27_StartReturns ==
    (triggers = 1 /\ Settled /\ FwdStopped) => spc # "parked"

\* C28: the first message written to the signaling transport is the offer.
C28_OfferFirst == ws_out # <<>> => ws_out[1].event = "offer"

\* The positions of the candidate messages of the i-th invocation in what
\* was written to the transport.
MsgsFor(i) ==
    {k \in 1..Len(ws_out) : ws_out[k].event = "candidate" /\ ws_out[k].data = i}

\* C23: a reported candidate has exactly one message on the transport once
\* its send has returned Ok and none before; only an invocation that was
\* given a candidate gets as far as the mutex, and the end-of-gathering None
\* is skipped; an invocation that waits for the mutex gets it and its send
\* returns.
C23_CandidateForwardedOnce ==
    /\ [](\A i \in Cands :
            /\ Cardinality(MsgsFor(i)) = (IF cpc[i] = "sent" THEN 1 ELSE 0)
            /\ cpc[i] \in {"lock", "sending", "sent", "send_failed"}
                  => creport[i].kind = "some"
            /\ creport[i].kind = "none" => cpc[i] = "skipped")
    /\ \A i \in Cands :
          (cpc[i] = "lock") ~> (cpc[i] \in {"sent", "send_failed"})

\* C23 witness: two candidates were reported with the connection up, both
\* sends returned Ok, and their messages follow the offer, one each.
C23_Witness ==
    /\ cpc[1] = "sent"
    /\ cpc[2] = "sent"
    /\ Len(ws_out) = 3
    /\ ~WsEnded

\* C24: no candidate message is on the transport for an invocation of the
\* callback that began when the session was already closed.
C24_NoCandidateAfterClosed ==
    \A i \in Cands : creport[i].closed => MsgsFor(i) = {}

\* C25: a "candidate" message is handled in whatever state the session is
\* in, with or without a remote description; whether the peer session takes
\* it, rejects it, or its payload is no candidate, handling it changes
\* nothing of the session and leaves the handler in its loop.
C25_CandidateNonFatal ==
    [][(Handled /\ ws_msg \in {"candidate", "candidate_rejected", "candidate_bad"})
         => (/\ hpc' = "ws_loop"
             /\ UNCHANGED <<remote_set, channels_open, gpc, gcount, bridge, bst,
                            sup_shutdowns, state_changes, peer_down, herr,
                            offer, local_desc, ws_lock, ws_out, cpc,
                            creport>>)]_vars

\* C25 witness: a candidate arrived before any answer, so the session has no
\* remote description, and the peer session rejected it; the handler is back
\* at receiver.next().
C25_Witness ==
    /\ ws_last = "candidate_rejected"
    /\ ~remote_set
    /\ hpc = "ws_loop"
    /\ ws_msg = "none"

\* C22: once both channels have reported open, Bridge::new is called and
\* either fails or its Bridge is stored and Bridge::start is spawned for it,
\* whatever else the session does meanwhile.
C22_NoMissedCreation ==
    (channels_open = 2) ~> (\E c \in Chans : bst[c] \in {"started", "failed"})

\* C22 witness: both channels opened, Bridge::new succeeded, and the Bridge
\* is in the slot with its task spawned while the handler is in its loop.
C22_Witness ==
    /\ channels_open = 2
    /\ \E c \in Chans : bst[c] = "started" /\ bridge = c
    /\ hpc = "ws_loop"

\* C26: whenever the shutdown signal has been triggered, at whatever point
\* after the Bridge was built, the UDP loop stops.
C26_TriggerNotLost == (triggers >= 1) ~> FwdStopped

\* C26 witness: the signal was triggered once before Bridge::start has run
\* at all: the loop is not spawned yet and the permit is stored.
C26_Witness ==
    /\ triggers = 1
    /\ spc = "init"
    /\ permit
    /\ fpc = "unspawned"

====
